---- MODULE Spec2Model ----
(***************************************************************************)
(* The growable, length-framed ring Buffer of                              *)
(* src/circular_buffer/paging_buffer.go (package controller), driven by a  *)
(* bounded number of goroutines that call Write, Read, Count and Size.     *)
(*                                                                         *)
(* Go slices are 0-based, TLA+ sequences 1-based: b.data[i] is data[i+1].  *)
(***************************************************************************)
EXTENDS Integers, Sequences, FiniteSets, TLC

\* ------------------------------------------------------------------ bounds
\* number of accepted Write calls in one behaviour of one goroutine
MaxWrites == 4
\* number of accepted Write calls in one behaviour of two goroutines
MaxConcWrites == 2
\* number of accepted Write calls in one behaviour with packets of 65535 bytes
MaxBoundaryWrites == 2
\* number of accepted Write calls in one behaviour made of TestBuffer's calls
MaxScriptWrites == 3
\* number of accepted Write calls in one behaviour of the list-backed Buffer
MaxListWrites == 3
\* capacities 0..PolicySpan, and cutoffSize - PolicySpan..cutoffSize +
\* PolicySpan, are handed to the size computation of grow()
PolicySpan == 1500

\* ------------------------------------------------------- program constants
minSize == 2048
cutoffSize == 128 * 1024
\* 0x10000, the first length Write rejects
maxPacket == 65536
\* one byte holds 0..255: uint8(x) is x % 256, x >> 8 is x \div 256
byteBase == 256
ErrPacketTooBig == "packet too big"
\* the text of the error Read builds with fmt.Sprintf; the number goes in need
ErrShort == "short buffer, at least %d is needed"

\* the goroutines using the Buffer: two, so that calls can overlap
Threads == {1, 2}

VARIABLES
    data,      \* b.data, the arena
    head,      \* b.head
    tail,      \* b.tail
    count,     \* b.count
    mutex,     \* b.mutex: 0 when free, else the goroutine that locked it
    pc,        \* where each goroutine is: "idle" or inside a call
    arg,       \* the slice a goroutine passed to its pending call
    ret,       \* what the step just taken returned to its caller, if it returned
    queued,    \* history: the packets accepted by Write and not yet read out
    nwrites,   \* history: number of Write calls accepted so far
    step,      \* history: how many calls of TestBuffer's script were made, in order
    grewWrapped, \* history: the step just taken was a grow() of a wrapped arena
    cap,       \* a capacity handed to grow()'s size computation on its own
    pktqueue,  \* package list: b.pktqueue, the Packets from front to back
    lcount,    \* package list: b.count
    buffersize, \* package list: b.buffersize
    mem,       \* the arrays behind the slices the caller of package list owns
    written    \* history: the bytes each queued packet held when it was written

\* the variables no method of the ring Buffer touches
others == <<cap, pktqueue, lcount, buffersize, mem, written>>

\* the variables no method of the list-backed Buffer touches
ringVars == <<data, head, tail, count, mutex, pc, arg, queued, step,
              grewWrapped, cap>>

vars == <<data, head, tail, count, mutex, pc, arg, ret, queued, nwrites,
          step, grewWrapped, others>>

\* ----------------------------------------------------------- Go built-ins
Min(a, b) == IF a < b THEN a ELSE b

\* make([]byte, n)
Zeros(n) == [i \in 1..n |-> 0]

\* s[lo:hi]
Slice(s, lo, hi) == SubSeq(s, lo + 1, hi)

\* the number copy(dst[off:], src) returns
CopyLen(dst, off, src) == Min(Len(dst) - off, Len(src))

\* dst after copy(dst[off:], src)
CopyInto(dst, off, src) ==
    LET n == CopyLen(dst, off, src)
    IN  SubSeq(dst, 1, off) \o SubSeq(src, 1, n) \o SubSeq(dst, off + n + 1, Len(dst))

\* the Buffer's fields as one value
buf == [data |-> data, head |-> head, tail |-> tail, count |-> count]

\* ------------------------------------------------------------- the Buffer
\* available without the byte kept free
availableNoSpare(b, size) ==
    LET a0 == b.head - b.tail
        a  == IF a0 <= 0 THEN a0 + Len(b.data) ELSE a0
    IN  ~(size + 2 > a)

\* available with the 2 bytes of the length header left out
availableNoHeader(b, size) ==
    LET a0 == b.head - b.tail
        a  == IF a0 <= 0 THEN a0 + Len(b.data) ELSE a0
    IN  ~(size + 1 > a)

available(b, size) ==
    LET a0 == b.head - b.tail
        a  == IF a0 <= 0 THEN a0 + Len(b.data) ELSE a0
    IN  ~(size + 2 + 1 > a)

\* the size computation doubling above cutoffSize too
newsizeNoCutoff(len) ==
    LET n == 2 * len
    IN  IF n < minSize THEN minSize ELSE n

\* the size computation without the minSize floor
newsizeNoMin(len) ==
    IF len < cutoffSize THEN 2 * len ELSE (5 * len) \div 4

newsize(len) ==
    LET n == IF len < cutoffSize THEN 2 * len ELSE (5 * len) \div 4
    IN  IF n < minSize THEN minSize ELSE n

\* grow with the two halves of noncontiguous data copied in the wrong order
growSwapped(b) ==
    LET newdata == Zeros(newsize(Len(b.data)))
    IN  IF b.head <= b.tail
        THEN LET src == Slice(b.data, b.head, b.tail)
             IN  [data  |-> CopyInto(newdata, 0, src),
                  head  |-> 0,
                  tail  |-> CopyLen(newdata, 0, src),
                  count |-> b.count]
        ELSE LET src1 == Slice(b.data, 0, b.tail)
                 n1   == CopyLen(newdata, 0, src1)
                 d1   == CopyInto(newdata, 0, src1)
                 src2 == Slice(b.data, b.head, Len(b.data))
             IN  [data  |-> CopyInto(d1, n1, src2),
                  head  |-> 0,
                  tail  |-> n1 + CopyLen(d1, n1, src2),
                  count |-> b.count]

grow(b) ==
    LET newdata == Zeros(newsize(Len(b.data)))
    IN  IF b.head <= b.tail
        THEN \* data was contiguous
             LET src == Slice(b.data, b.head, b.tail)
             IN  [data  |-> CopyInto(newdata, 0, src),
                  head  |-> 0,
                  tail  |-> CopyLen(newdata, 0, src),
                  count |-> b.count]
        ELSE \* data was noncontiguous
             LET src1 == Slice(b.data, b.head, Len(b.data))
                 n1   == CopyLen(newdata, 0, src1)
                 d1   == CopyInto(newdata, 0, src1)
                 src2 == Slice(b.data, 0, b.tail)
             IN  [data  |-> CopyInto(d1, n1, src2),
                  head  |-> 0,
                  tail  |-> n1 + CopyLen(d1, n1, src2),
                  count |-> b.count]

\* an index moved one byte on, back to 0 at the end of the arena
inc(i, len) == IF i + 1 >= len THEN 0 ELSE i + 1

\* store without count++
storeNoCount(b, packet) ==
    LET len == Len(b.data)
        d1  == [b.data EXCEPT ![b.tail + 1] = (Len(packet) \div byteBase) % byteBase]
        t1  == inc(b.tail, len)
        d2  == [d1 EXCEPT ![t1 + 1] = Len(packet) % byteBase]
        t2  == inc(t1, len)
        n   == CopyLen(d2, t2, packet)
        d3  == CopyInto(d2, t2, packet)
        t3  == t2 + n
        rest == Slice(packet, n, Len(packet))
    IN  IF t3 >= len
        THEN \* we reached the end, wrap around
             [data |-> CopyInto(d3, 0, rest), head |-> b.head,
              tail |-> CopyLen(d3, 0, rest), count |-> b.count]
        ELSE [data |-> d3, head |-> b.head, tail |-> t3, count |-> b.count]

\* Write, from the header to count++ (the packet is known to fit)
store(b, packet) ==
    LET len == Len(b.data)
        d1  == [b.data EXCEPT ![b.tail + 1] = (Len(packet) \div byteBase) % byteBase]
        t1  == inc(b.tail, len)
        d2  == [d1 EXCEPT ![t1 + 1] = Len(packet) % byteBase]
        t2  == inc(t1, len)
        n   == CopyLen(d2, t2, packet)
        d3  == CopyInto(d2, t2, packet)
        t3  == t2 + n
        rest == Slice(packet, n, Len(packet))
    IN  IF t3 >= len
        THEN \* we reached the end, wrap around
             [data |-> CopyInto(d3, 0, rest), head |-> b.head,
              tail |-> CopyLen(d3, 0, rest), count |-> b.count + 1]
        ELSE [data |-> d3, head |-> b.head, tail |-> t3, count |-> b.count + 1]

\* read without the reset of the cursors when the Buffer becomes empty
readNoReset(b, packet) ==
    IF b.head # b.tail
    THEN LET len == Len(b.data)
             n1  == b.data[b.head + 1]
             h1  == inc(b.head, len)
             n2  == b.data[h1 + 1]
             h2  == inc(h1, len)
             cnt == n1 * byteBase + n2
         IN  IF Len(packet) < cnt
             THEN [b |-> [b EXCEPT !.head = h2], n |-> 0, err |-> ErrShort,
                   need |-> cnt, packet |-> packet, unlocked |-> FALSE]
             ELSE LET out == IF h2 + cnt < len
                             THEN CopyInto(packet, 0, Slice(b.data, h2, h2 + cnt))
                             ELSE LET src1 == Slice(b.data, h2, len)
                                      k    == CopyLen(packet, 0, src1)
                                      p1   == CopyInto(packet, 0, src1)
                                  IN  CopyInto(p1, k, Slice(b.data, 0, cnt - k))
                      h3  == IF h2 + cnt >= len THEN h2 + cnt - len ELSE h2 + cnt
                  IN  [b |-> [data  |-> b.data,
                              head  |-> h3,
                              tail  |-> b.tail,
                              count |-> b.count - 1],
                       n |-> cnt, err |-> "nil", need |-> 0, packet |-> out,
                       unlocked |-> TRUE]
    ELSE [b |-> b, n |-> 0, err |-> "nil", need |-> 0, packet |-> packet,
          unlocked |-> TRUE]

\* read with count-- made on the empty path too
readCountOnEmpty(b, packet) ==
    IF b.head # b.tail
    THEN LET len == Len(b.data)
             n1  == b.data[b.head + 1]
             h1  == inc(b.head, len)
             n2  == b.data[h1 + 1]
             h2  == inc(h1, len)
             cnt == n1 * byteBase + n2
         IN  IF Len(packet) < cnt
             THEN [b |-> [b EXCEPT !.head = h2], n |-> 0, err |-> ErrShort,
                   need |-> cnt, packet |-> packet, unlocked |-> FALSE]
             ELSE LET out == IF h2 + cnt < len
                             THEN CopyInto(packet, 0, Slice(b.data, h2, h2 + cnt))
                             ELSE LET src1 == Slice(b.data, h2, len)
                                      k    == CopyLen(packet, 0, src1)
                                      p1   == CopyInto(packet, 0, src1)
                                  IN  CopyInto(p1, k, Slice(b.data, 0, cnt - k))
                      h3  == IF h2 + cnt >= len THEN h2 + cnt - len ELSE h2 + cnt
                      emp == h3 = b.tail
                  IN  [b |-> [data  |-> b.data,
                              head  |-> IF emp THEN 0 ELSE h3,
                              tail  |-> IF emp THEN 0 ELSE b.tail,
                              count |-> b.count - 1],
                       n |-> cnt, err |-> "nil", need |-> 0, packet |-> out,
                       unlocked |-> TRUE]
    ELSE [b |-> [b EXCEPT !.count = b.count - 1], n |-> 0, err |-> "nil", need |-> 0, packet |-> packet,
          unlocked |-> TRUE]

\* Read between Lock and return: the Buffer after it (b), what it returns
\* (n, err, need), the caller's slice after it (packet), and whether the
\* return path unlocked the mutex
read(b, packet) ==
    IF b.head # b.tail
    THEN LET len == Len(b.data)
             n1  == b.data[b.head + 1]
             h1  == inc(b.head, len)
             n2  == b.data[h1 + 1]
             h2  == inc(h1, len)
             cnt == n1 * byteBase + n2
         IN  IF Len(packet) < cnt
             THEN [b |-> [b EXCEPT !.head = h2], n |-> 0, err |-> ErrShort,
                   need |-> cnt, packet |-> packet, unlocked |-> FALSE]
             ELSE LET out == IF h2 + cnt < len
                             THEN CopyInto(packet, 0, Slice(b.data, h2, h2 + cnt))
                             ELSE LET src1 == Slice(b.data, h2, len)
                                      k    == CopyLen(packet, 0, src1)
                                      p1   == CopyInto(packet, 0, src1)
                                  IN  CopyInto(p1, k, Slice(b.data, 0, cnt - k))
                      h3  == IF h2 + cnt >= len THEN h2 + cnt - len ELSE h2 + cnt
                      emp == h3 = b.tail
                  IN  [b |-> [data  |-> b.data,
                              head  |-> IF emp THEN 0 ELSE h3,
                              tail  |-> IF emp THEN 0 ELSE b.tail,
                              count |-> b.count - 1],
                       n |-> cnt, err |-> "nil", need |-> 0, packet |-> out,
                       unlocked |-> TRUE]
    ELSE [b |-> b, n |-> 0, err |-> "nil", need |-> 0, packet |-> packet,
          unlocked |-> TRUE]

\* size() with the cursors exchanged
sizeSwapped(b) ==
    LET s == b.head - b.tail
    IN  IF s < 0 THEN s + Len(b.data) ELSE s

size(b) ==
    LET s == b.tail - b.head
    IN  IF s < 0 THEN s + Len(b.data) ELSE s

\* the length test with > for >=
tooBigOffByOne(packet) == Len(packet) > maxPacket

\* Write's first test, made before the mutex is touched
tooBig(packet) == Len(packet) >= maxPacket

\* ------------------------------------------------------------------ inputs
\* a packet of the given length whose i-th byte is (seed + i) % 256
Packet(len, seed) == [i \in 1..len |-> (seed + i) % byteBase]

\* the packets one goroutine writes: the empty packet, and two that each fill
\* half of the first arena, so that the cursors wrap and the arena grows
Packets == { <<>>, Packet(1020, 7), Packet(1021, 200) }

\* the packets two goroutines write
ConcPackets == { <<>>, <<0, 1>> }

\* a packet Write must reject
BigPackets == { Zeros(maxPacket) }

\* the destination slices the callers read into
Dsts == { Zeros(1), Zeros(1021) }

\* the largest packet Write accepts, a packet it must reject, and the empty one
BoundaryPackets == { <<>>, Packet(maxPacket - 1, 1), Zeros(maxPacket) }

\* destination slices for the largest packet
BoundaryDsts == { Zeros(1), Zeros(maxPacket - 1) }

\* a return: the goroutine t, the call op, the length len of the slice it
\* passed, the results n and err (need: the number in Read's error text), and
\* for Read the caller's slice after the call
NoRet ==
    [t |-> 0, op |-> "none", len |-> 0, n |-> 0, err |-> "nil", need |-> 0,
     packet |-> <<>>]

Ret(t, op, len, n, err) ==
    [t |-> t, op |-> op, len |-> len, n |-> n, err |-> err, need |-> 0,
     packet |-> <<>>]

\* ------------------------------------------------- package list's Buffer
\* the arrays the caller of package list has made, by name
CallerArrays == [a |-> <<2, 3, 4>>, b |-> <<5, 6, 7>>]

\* a slice over the whole of array a: its array and its len
SliceOf(a) == [arr |-> a, len |-> Len(mem[a])]

\* the bytes a slice holds now
Bytes(m, sl) == Slice(m[sl.arr], 0, sl.len)

\* where the caller stores into a slice after Write, and what
CallerIndexes == {0, 2}
CallerBytes == {9}

\* the destinations the caller hands to Read
ListDsts == { Zeros(1), Zeros(4) }

listBuf == [pktqueue |-> pktqueue, count |-> lcount, buffersize |-> buffersize]

\* Write keeping no track of the bytes added
listWriteNoSize(b, packet) ==
    [b EXCEPT !.pktqueue = Append(@, [payload |-> packet]),
              !.count = @ + 1]

\* Write between Lock and Unlock: PushBack(&Packet{payload: packet}); the
\* Packet holds the caller's slice, not new bytes
listWrite(b, packet) ==
    [b EXCEPT !.pktqueue = Append(@, [payload |-> packet]),
              !.buffersize = @ + packet.len,
              !.count = @ + 1]

\* Read between Lock and Unlock, with the arrays m as they are now
listRead(b, m, packet) ==
    IF Len(b.pktqueue) > 0
    THEN LET pkt == Head(b.pktqueue)
             pktlen == pkt.payload.len
         IN  [b |-> [b EXCEPT !.pktqueue = Tail(@),
                              !.count = @ - 1,
                              !.buffersize = @ - pktlen],
              n |-> pktlen,
              packet |-> CopyInto(packet, 0, Bytes(m, pkt.payload))]
    ELSE [b |-> b, n |-> 0, packet |-> packet]

\* ------------------------------------------------------ TestBuffer's script
\* the calls TestBuffer makes on a new Buffer, in order
Script ==
    << [op |-> "Write", packet |-> <<0, 1>>],
       [op |-> "Read",  packet |-> Zeros(4)],
       [op |-> "Write", packet |-> <<2, 3, 4>>],
       [op |-> "Write", packet |-> <<5, 6, 7>>],
       [op |-> "Count", packet |-> <<>>],
       [op |-> "Size",  packet |-> <<>>],
       [op |-> "Read",  packet |-> Zeros(4)],
       [op |-> "Read",  packet |-> Zeros(4)],
       [op |-> "Read",  packet |-> Zeros(4)] >>

\* the value of step once a call was made that is not the script's next one
Off == Len(Script) + 1

\* step after the call c
Follow(c) ==
    IF step < Len(Script) /\ Script[step + 1] = c THEN step + 1 ELSE Off

\* the packets and the destination TestBuffer uses
ScriptPackets == { <<0, 1>>, <<2, 3, 4>>, <<5, 6, 7>> }
ScriptDsts == { Zeros(4) }

\* ------------------------------------------------------------------- state
\* NewBuffer() of either package, and the caller's arrays
Fresh ==
    /\ data = <<>>
    /\ head = 0
    /\ tail = 0
    /\ count = 0
    /\ mutex = 0
    /\ pc = [t \in Threads |-> "idle"]
    /\ arg = [t \in Threads |-> <<>>]
    /\ ret = NoRet
    /\ queued = <<>>
    /\ nwrites = 0
    /\ step = 0
    /\ grewWrapped = FALSE
    /\ pktqueue = <<>>
    /\ lcount = 0
    /\ buffersize = 0
    /\ mem = CallerArrays
    /\ written = <<>>

Init == Fresh /\ cap = 0

\* the Buffer's fields become those of b
SetBuf(b) ==
    /\ data' = b.data
    /\ head' = b.head
    /\ tail' = b.tail
    /\ count' = b.count

\* ----------------------------------------------------------------- actions
\* Write with a packet of 0x10000 bytes or more: returns before Lock
WriteTooBig(t, packet) ==
    /\ pc[t] = "idle"
    /\ tooBig(packet)
    /\ ret' = Ret(t, "Write", Len(packet), 0, ErrPacketTooBig)
    /\ UNCHANGED <<data, head, tail, count, mutex, pc, arg, queued, nwrites>>
    /\ step' = Follow([op |-> "Write", packet |-> packet])
    /\ grewWrapped' = FALSE
    /\ UNCHANGED others

\* Write with a packet that passes the length test: goes on to Lock
WriteCall(t, packet) ==
    /\ pc[t] = "idle"
    /\ ~tooBig(packet)
    /\ nwrites' = nwrites + 1
    /\ pc' = [pc EXCEPT ![t] = "WriteLock"]
    /\ arg' = [arg EXCEPT ![t] = packet]
    /\ ret' = NoRet
    /\ UNCHANGED <<data, head, tail, count, mutex, queued>>
    /\ step' = Follow([op |-> "Write", packet |-> packet])
    /\ grewWrapped' = FALSE
    /\ UNCHANGED others

ReadCall(t, packet) ==
    /\ pc[t] = "idle"
    /\ pc' = [pc EXCEPT ![t] = "ReadLock"]
    /\ arg' = [arg EXCEPT ![t] = packet]
    /\ ret' = NoRet
    /\ UNCHANGED <<data, head, tail, count, mutex, queued, nwrites>>
    /\ step' = Follow([op |-> "Read", packet |-> packet])
    /\ grewWrapped' = FALSE
    /\ UNCHANGED others

CountCall(t) ==
    /\ pc[t] = "idle"
    /\ pc' = [pc EXCEPT ![t] = "CountLock"]
    /\ ret' = NoRet
    /\ UNCHANGED <<data, head, tail, count, mutex, arg, queued, nwrites>>
    /\ step' = Follow([op |-> "Count", packet |-> <<>>])
    /\ grewWrapped' = FALSE
    /\ UNCHANGED others

SizeCall(t) ==
    /\ pc[t] = "idle"
    /\ pc' = [pc EXCEPT ![t] = "SizeLock"]
    /\ ret' = NoRet
    /\ UNCHANGED <<data, head, tail, count, mutex, arg, queued, nwrites>>
    /\ step' = Follow([op |-> "Size", packet |-> <<>>])
    /\ grewWrapped' = FALSE
    /\ UNCHANGED others

\* where a goroutine goes once b.mutex.Lock() returns
AfterLock(label) ==
    CASE label = "WriteLock" -> "WriteLoop"
      [] label = "ReadLock"  -> "ReadBody"
      [] label = "CountLock" -> "CountBody"
      [] label = "SizeLock"  -> "SizeBody"

\* a Lock() that returns although another goroutine holds the mutex
LockNoWait(t) ==
    /\ pc[t] \in {"WriteLock", "ReadLock", "CountLock", "SizeLock"}
    /\ mutex' = t
    /\ pc' = [pc EXCEPT ![t] = AfterLock(pc[t])]
    /\ ret' = NoRet
    /\ UNCHANGED <<data, head, tail, count, arg, queued, nwrites>>
    /\ UNCHANGED step
    /\ grewWrapped' = FALSE
    /\ UNCHANGED others

\* b.mutex.Lock(): returns only when the mutex is free
Lock(t) ==
    /\ pc[t] \in {"WriteLock", "ReadLock", "CountLock", "SizeLock"}
    /\ mutex = 0
    /\ mutex' = t
    /\ pc' = [pc EXCEPT ![t] = AfterLock(pc[t])]
    /\ ret' = NoRet
    /\ UNCHANGED <<data, head, tail, count, arg, queued, nwrites>>
    /\ UNCHANGED step
    /\ grewWrapped' = FALSE
    /\ UNCHANGED others

\* one turn of Write's loop: the packet does not fit, grow
WriteGrow(t) ==
    /\ pc[t] = "WriteLoop"
    /\ ~available(buf, Len(arg[t]))
    /\ SetBuf(grow(buf))
    /\ ret' = NoRet
    /\ UNCHANGED <<mutex, pc, arg, queued, nwrites>>
    /\ UNCHANGED step
    /\ grewWrapped' = (tail < head)
    /\ UNCHANGED others

\* the packet fits: store it, unlock, return
WriteStore(t) ==
    /\ pc[t] = "WriteLoop"
    /\ available(buf, Len(arg[t]))
    /\ SetBuf(store(buf, arg[t]))
    /\ mutex' = 0
    /\ pc' = [pc EXCEPT ![t] = "idle"]
    /\ ret' = Ret(t, "Write", Len(arg[t]), Len(arg[t]), "nil")
    /\ queued' = Append(queued, arg[t])
    /\ arg' = [arg EXCEPT ![t] = <<>>]
    /\ UNCHANGED nwrites
    /\ UNCHANGED step
    /\ grewWrapped' = FALSE
    /\ UNCHANGED others

\* Read from Lock's return to its own return
ReadReturn(t) ==
    /\ pc[t] = "ReadBody"
    /\ LET r == read(buf, arg[t])
       IN  /\ SetBuf(r.b)
           /\ mutex' = IF r.unlocked THEN 0 ELSE mutex
           /\ ret' = [t |-> t, op |-> "Read", len |-> Len(arg[t]), n |-> r.n,
                      err |-> r.err, need |-> r.need, packet |-> r.packet]
           \* a Read that returns no error while a packet is queued has
           \* handed the oldest packet to its caller
           /\ queued' = IF r.err = "nil" /\ queued # <<>>
                        THEN Tail(queued) ELSE queued
    /\ pc' = [pc EXCEPT ![t] = "idle"]
    /\ arg' = [arg EXCEPT ![t] = <<>>]
    /\ UNCHANGED nwrites
    /\ UNCHANGED step
    /\ grewWrapped' = FALSE
    /\ UNCHANGED others

CountReturn(t) ==
    /\ pc[t] = "CountBody"
    /\ ret' = Ret(t, "Count", 0, count, "nil")
    /\ mutex' = 0
    /\ pc' = [pc EXCEPT ![t] = "idle"]
    /\ UNCHANGED <<data, head, tail, count, arg, queued, nwrites>>
    /\ UNCHANGED step
    /\ grewWrapped' = FALSE
    /\ UNCHANGED others

SizeReturn(t) ==
    /\ pc[t] = "SizeBody"
    /\ ret' = Ret(t, "Size", 0, size(buf), "nil")
    /\ mutex' = 0
    /\ pc' = [pc EXCEPT ![t] = "idle"]
    /\ UNCHANGED <<data, head, tail, count, arg, queued, nwrites>>
    /\ UNCHANGED step
    /\ grewWrapped' = FALSE
    /\ UNCHANGED others



\* what a goroutine does inside a call
Step(t) ==
    \/ Lock(t)
    \/ WriteGrow(t)
    \/ WriteStore(t)
    \/ ReadReturn(t)
    \/ CountReturn(t)
    \/ SizeReturn(t)

\* ---------------------------------------------------------- specifications
\* one goroutine: every sequence of calls, each running to its return
Next ==
    \/ \E packet \in BigPackets : WriteTooBig(1, packet)
    \/ \E packet \in Packets : nwrites < MaxWrites /\ WriteCall(1, packet)
    \/ \E packet \in Dsts : ReadCall(1, packet)
    \/ CountCall(1)
    \/ SizeCall(1)
    \/ Step(1)

Spec == Init /\ [][Next]_vars

\* one goroutine making TestBuffer's calls, in TestBuffer's order or any other
ScriptNext ==
    \/ \E packet \in ScriptPackets : nwrites < MaxScriptWrites /\ WriteCall(1, packet)
    \/ \E packet \in ScriptDsts : ReadCall(1, packet)
    \/ CountCall(1)
    \/ SizeCall(1)
    \/ Step(1)

ScriptSpec == Init /\ [][ScriptNext]_vars

\* ----------------------------------------------- package list's actions
SetListBuf(b) ==
    /\ pktqueue' = b.pktqueue
    /\ lcount' = b.count
    /\ buffersize' = b.buffersize

\* list Write with a packet of 0x10000 bytes or more
ListWriteTooBig(packet) ==
    /\ tooBig(packet)
    /\ ret' = Ret(1, "list.Write", Len(packet), 0, ErrPacketTooBig)
    /\ UNCHANGED <<pktqueue, lcount, buffersize, mem, written, nwrites>>
    /\ UNCHANGED ringVars

\* list Write of the caller's slice over array a, from call to return
ListWrite(a) ==
    /\ ~tooBig(mem[a])
    /\ SetListBuf(listWrite(listBuf, SliceOf(a)))
    /\ ret' = Ret(1, "list.Write", Len(mem[a]), Len(mem[a]), "nil")
    /\ written' = Append(written, mem[a])
    /\ nwrites' = nwrites + 1
    /\ UNCHANGED mem
    /\ UNCHANGED ringVars

\* the caller stores byte v at index i of its array a
CallerStore(a, i, v) ==
    /\ i < Len(mem[a])
    /\ mem[a][i + 1] # v
    /\ mem' = [mem EXCEPT ![a][i + 1] = v]
    /\ ret' = NoRet
    /\ UNCHANGED <<pktqueue, lcount, buffersize, written, nwrites>>
    /\ UNCHANGED ringVars

\* list Read, from call to return
ListRead(packet) ==
    /\ LET r == listRead(listBuf, mem, packet)
       IN  /\ SetListBuf(r.b)
           /\ ret' = [t |-> 1, op |-> "list.Read", len |-> Len(packet),
                      n |-> r.n, err |-> "nil", need |-> 0,
                      packet |-> r.packet]
    /\ written' = IF written # <<>> THEN Tail(written) ELSE written
    /\ UNCHANGED <<mem, nwrites>>
    /\ UNCHANGED ringVars

ListCount ==
    /\ ret' = Ret(1, "list.Count", 0, lcount, "nil")
    /\ UNCHANGED <<pktqueue, lcount, buffersize, mem, written, nwrites>>
    /\ UNCHANGED ringVars

ListSize ==
    /\ ret' = Ret(1, "list.Size", 0, buffersize, "nil")
    /\ UNCHANGED <<pktqueue, lcount, buffersize, mem, written, nwrites>>
    /\ UNCHANGED ringVars

\* one goroutine using the list-backed Buffer and its own slices
ListNext ==
    \/ \E packet \in BigPackets : ListWriteTooBig(packet)
    \/ \E a \in DOMAIN CallerArrays : nwrites < MaxListWrites /\ ListWrite(a)
    \/ \E a \in DOMAIN CallerArrays, i \in CallerIndexes, v \in CallerBytes :
          CallerStore(a, i, v)
    \/ \E packet \in ListDsts : ListRead(packet)
    \/ ListCount
    \/ ListSize

ListSpec == Init /\ [][ListNext]_vars

\* ------------------------------------------- grow()'s size computation
\* the capacities the computation starts from
PolicyCaps ==
    (0 .. PolicySpan) \cup ((cutoffSize - PolicySpan) .. (cutoffSize + PolicySpan))

\* no capacity beyond this one is grown again
PolicyLimit == 4 * cutoffSize

\* the first statements of grow(): the new arena's length from the old one's
PolicyGrow ==
    /\ cap < PolicyLimit
    /\ cap' = newsize(cap)
    /\ ret' = Ret(0, "grow", cap, newsize(cap), "nil")
    /\ UNCHANGED <<data, head, tail, count, mutex, pc, arg, queued, nwrites,
                   step, grewWrapped>>
    /\ UNCHANGED <<pktqueue, lcount, buffersize, mem, written>>

PolicyInit == Fresh /\ cap \in PolicyCaps

PolicySpec == PolicyInit /\ [][PolicyGrow]_vars

\* two goroutines whose calls overlap
ConcNext ==
    \E t \in Threads :
        \/ \E packet \in BigPackets : WriteTooBig(t, packet)
        \/ \E packet \in ConcPackets : nwrites < MaxConcWrites /\ WriteCall(t, packet)
        \/ \E packet \in Dsts : ReadCall(t, packet)
        \/ CountCall(t)
        \/ SizeCall(t)
        \/ Step(t)

ConcSpec == Init /\ [][ConcNext]_vars

\* one goroutine writing packets at the limit of the 2-byte length header
BoundaryNext ==
    \/ \E packet \in BoundaryPackets :
          \/ WriteTooBig(1, packet)
          \/ nwrites < MaxBoundaryWrites /\ WriteCall(1, packet)
    \/ \E packet \in BoundaryDsts : ReadCall(1, packet)
    \/ CountCall(1)
    \/ SizeCall(1)
    \/ Step(1)

BoundarySpec == Init /\ [][BoundaryNext]_vars

\* a goroutine inside a call keeps running, and sync.Mutex hands the lock to a
\* goroutine that keeps waiting for it whenever it is free again and again
Fairness == \A t \in Threads : WF_vars(Step(t)) /\ SF_vars(Lock(t))

FairSpec == ConcSpec /\ Fairness

\* the goroutine of BoundarySpec, never stopped for ever inside a call
FairBoundarySpec == BoundarySpec /\ WF_vars(Step(1))

\* ------------------------------------------------------------------ claims
\* the step in which goroutine t returns from Read
ReadReturns(t) == pc[t] = "ReadBody" /\ pc'[t] = "idle"

\* the step in which goroutine t returns from an accepted Write
WriteReturns(t) == pc[t] = "WriteLoop" /\ pc'[t] = "idle"

\* the step in which goroutine t's Write grows the arena
WriteGrows(t) == pc[t] = "WriteLoop" /\ pc'[t] = "WriteLoop" /\ data' # data

\* the Buffer's fields in the next state
bufNext == [data |-> data', head |-> head', tail |-> tail', count |-> count']

\* the bytes the packets of q take in the arena: 2 + length for each
RECURSIVE QueuedBytes(_)
QueuedBytes(q) == IF q = <<>> THEN 0 ELSE 2 + Len(Head(q)) + QueuedBytes(Tail(q))

\* no goroutine is inside a call
Quiet == \A t \in Threads : pc[t] = "idle"

\* C1: FIFO order. A Read whose destination is as long as the oldest queued
\* packet, or longer, returns no error and that packet, its length and its
\* bytes, and takes it off the queue, so the k-th such Read returns the k-th
\* packet written; and no Read returns without error anything else.
C1_FifoOrder ==
    [][\A t \in Threads :
         (ReadReturns(t) /\ queued # <<>>)
         => /\ Len(arg[t]) >= Len(Head(queued)) => ret'.err = "nil"
            /\ ret'.err = "nil"
               => /\ ret'.n = Len(Head(queued))
                  /\ ret'.n <= Len(ret'.packet)
                  /\ SubSeq(ret'.packet, 1, ret'.n) = Head(queued)
                  /\ queued' = Tail(queued)]_vars

\* a Read has returned a packet out of an arena that grew while packets
\* were queued, and more packets are still queued
C1_Witness ==
    /\ ret.op = "Read"
    /\ ret.err = "nil"
    /\ ret.n > 0
    /\ Len(data) > minSize
    /\ count > 0

\* C2: after a Read that failed for a short destination, the next Read with
\* a destination as long as the oldest packet returns that packet: the
\* mutex is free for it, and it decodes the packet at head.
C2_ShortReadKeepsRecord ==
    (ret.op = "Read" /\ ret.err = ErrShort /\ queued # <<>>)
    => LET r == read(buf, Zeros(Len(Head(queued))))
       IN  /\ mutex = 0
           /\ r.err = "nil"
           /\ r.n = Len(Head(queued))
           /\ r.packet = Head(queued)

\* C3: a Read that fails for a short destination changes none of head, tail,
\* count and the arena.
C3_ShortReadNoMutation ==
    [][\A t \in Threads :
         (ReadReturns(t) /\ ret'.err = ErrShort)
         => UNCHANGED <<data, head, tail, count>>]_vars

\* C4: every call that was made returns.
C4_EveryCallReturns ==
    \A t \in Threads : (pc[t] # "idle") ~> (pc[t] = "idle")

\* C5: between calls the live bytes, which Size returns, are the sum of
\* 2 + length over the queued packets.
C5_SizeAccounting ==
    /\ Quiet => size(buf) = QueuedBytes(queued)
    /\ ret.op = "Size" => ret.n = QueuedBytes(queued)

C9_EmptyReadIdempotent ==
    [][\A t \in Threads :
         (ReadReturns(t) /\ count = 0)
         => /\ ret'.n = 0
            /\ ret'.err = "nil"
            /\ UNCHANGED <<data, head, tail, count>>]_vars

\* a Read has returned (0, nil) from a Buffer that packets went through
C9_Witness ==
    /\ ret.op = "Read"
    /\ ret.n = 0
    /\ ret.err = "nil"
    /\ count = 0
    /\ nwrites > 0
    /\ Len(data) > 0

\* C10: a Read returns (0, nil) only from an empty Buffer: none was queued,
\* none was consumed.
C10_ZeroReadMeansEmpty ==
    [][\A t \in Threads :
         (ReadReturns(t) /\ ret'.n = 0 /\ ret'.err = "nil")
         => /\ count = 0
            /\ count' = count
            /\ queued = <<>>]_vars

\* what the call at position k of Script returned, as TestBuffer looks at it:
\* the number, the error and, of a Read, the first n bytes of the destination
Returned ==
    [n |-> ret.n, err |-> ret.err,
     bytes |-> IF ret.op = "Read" THEN Slice(ret.packet, 0, ret.n) ELSE <<>>]

Answer(n, bytes) == [n |-> n, err |-> "nil", bytes |-> bytes]

\* the script's call number k has returned and no other call was made
ScriptAt(k) == step = k /\ pc[1] = "idle" /\ ret.op = Script[k].op

\* the returns of the script's calls other than Size()
ScriptReturns ==
    /\ ScriptAt(1) => Returned = Answer(2, <<>>)
    /\ ScriptAt(2) => Returned = Answer(2, <<0, 1>>)
    /\ ScriptAt(3) => Returned = Answer(3, <<>>)
    /\ ScriptAt(4) => Returned = Answer(3, <<>>)
    /\ ScriptAt(5) => Returned = Answer(2, <<>>)
    /\ ScriptAt(7) => Returned = Answer(3, <<2, 3, 4>>)
    /\ ScriptAt(8) => Returned = Answer(3, <<5, 6, 7>>)
    /\ ScriptAt(9) => Returned = Answer(0, <<>>)

\* C11 as stated: TestBuffer's calls on a new ring Buffer return what the
\* scenario lists, Size() returning 6 while [2,3,4] and [5,6,7] are queued.
C11_ScenarioSize6 ==
    /\ ScriptReturns
    /\ ScriptAt(6) => Returned = Answer(6, <<>>)

\* C11, amended: TestBuffer's calls on a new ring Buffer return what the
\* scenario lists, except that Size() returns 10 while [2,3,4] and [5,6,7]
\* are queued: two records of a 2-byte header and 3 bytes of payload.
C11_ScenarioSize10 ==
    /\ ScriptReturns
    /\ ScriptAt(6) => Returned = Answer(10, <<>>)

\* the whole script has run: its last Read has returned
C11_Witness == ScriptAt(9) /\ count = 0

\* where a goroutine is between the return of Lock and its Unlock
Critical == {"WriteLoop", "ReadBody", "CountBody", "SizeBody"}

\* C12: at most one call at a time is between Lock and Unlock, that call is
\* the holder of the mutex, every step that changes data, head, tail or count
\* is a step of the holder, and from a Write's first look at the ring to its
\* return (growth steps and store) no other call enters or returns a value
\* read from the ring.
C12_MutualExclusion ==
    [][ /\ \A t, u \in Threads :
              pc'[t] \in Critical /\ pc'[u] \in Critical => t = u
        /\ \A t \in Threads : pc'[t] \in Critical => mutex' = t
        /\ buf # bufNext =>
              \E t \in Threads :
                  /\ pc[t] \in Critical
                  /\ mutex = t
                  /\ \A u \in Threads \ {t} : pc'[u] = pc[u]
        /\ \A t \in Threads :
              pc[t] = "WriteLoop" =>
                  /\ \A u \in Threads \ {t} : pc'[u] \notin Critical
                  /\ ret' # NoRet /\ ret'.t # t => ret'.err = ErrPacketTooBig
      ]_vars

\* the first Write has grown the arena and not stored its packet yet, while
\* the other goroutine waits in Lock for its Read
C12_Witness ==
    /\ pc[1] = "WriteLoop"
    /\ mutex = 1
    /\ nwrites = 1
    /\ Len(data) = minSize
    /\ count = 0
    /\ pc[2] = "ReadLock"

\* C13 as stated: a Read of the list-backed Buffer returns the bytes the
\* packet's slice held when it was written, whatever the caller has stored
\* into that slice since.
C13_ListWriteCopies ==
    [][ ret'.op = "list.Read" /\ written # <<>> =>
            /\ ret'.n = Len(Head(written))
            /\ Slice(ret'.packet, 0, Min(ret'.n, ret'.len))
                 = Slice(Head(written), 0, Min(ret'.n, ret'.len))
      ]_vars

RECURSIVE SumLen(_)
\* the payload bytes of the packets ps, no header counted
SumLen(ps) == IF ps = <<>> THEN 0 ELSE Len(Head(ps)) + SumLen(Tail(ps))

C15_EmptyIffCursorsMeet ==
    /\ head = tail <=> count = 0
    /\ head = tail <=> queued = <<>>

\* between two calls, only a zero-length packet is queued
C15_Witness ==
    /\ Quiet
    /\ queued = << <<>> >>
    /\ count = 1
    /\ head # tail

\* the bytes between head and tail, oldest first
Live(b) ==
    IF b.head <= b.tail
    THEN Slice(b.data, b.head, b.tail)
    ELSE Slice(b.data, b.head, Len(b.data)) \o Slice(b.data, 0, b.tail)

RECURSIVE Records(_)
\* the records of the packets q: a 2-byte big-endian length, then the payload
Records(q) ==
    IF q = <<>> THEN <<>>
    ELSE << Len(Head(q)) \div byteBase, Len(Head(q)) % byteBase >>
         \o Head(q) \o Records(Tail(q))

\* C16: after every Write that stores a packet and after every growth step
\* the bytes between head and tail are the records of the queued packets,
\* whole and in order, and they are at most Len(data) - 1.
C16_ReservedByte ==
    [][ \A t \in Threads :
            WriteReturns(t) \/ WriteGrows(t) =>
                /\ Len(data') > 0
                /\ QueuedBytes(queued') <= Len(data') - 1
                /\ size(bufNext) = QueuedBytes(queued')
                /\ Live(bufNext) = Records(queued')
      ]_vars

\* a Write has returned leaving exactly one byte of the arena free
C16_Witness ==
    /\ ret.op = "Write"
    /\ ret.err = "nil"
    /\ Len(data) = minSize
    /\ size(buf) = Len(data) - 1

\* C17: a growth step, from a contiguous or a wrapped arena, leaves the bytes
\* between head and tail, count and the queued packets as they were, moves
\* them to the start of a longer arena (head = 0, tail = their number), and
\* every later Read that succeeds in the grown arena still returns the oldest
\* queued packet, byte for byte.
C17_GrowthPreservesQueue ==
    [][ \A t \in Threads :
            /\ WriteGrows(t) =>
                  /\ Live(bufNext) = Live(buf)
                  /\ Live(bufNext) = Records(queued)
                  /\ count' = count
                  /\ queued' = queued
                  /\ head' = 0
                  /\ tail' = size(buf)
                  /\ Len(data') > Len(data)
            /\ ( /\ ReadReturns(t)
                 /\ Len(data) > minSize
                 /\ queued # <<>>
                 /\ ret'.err = "nil" ) =>
                  /\ ret'.n = Len(Head(queued))
                  /\ Slice(ret'.packet, 0, ret'.n) = Head(queued)
      ]_vars

\* the step just taken grew an arena in which tail was behind head, with
\* packets queued
C17_Witness ==
    /\ grewWrapped
    /\ count > 0
    /\ head = 0
    /\ tail = QueuedBytes(queued)
    /\ Len(data) > minSize

\* C18: a growth step from capacity c gives max(2048, 2c) when c < 131072
\* and floor(5c/4) when c >= 131072; the result is greater than c; from 0 it
\* is 2048.
C18_GrowthPolicy ==
    ret.op = "grow" =>
        LET c == ret.len
            n == ret.n
        IN  /\ c < 131072 => n = (IF 2 * c > 2048 THEN 2 * c ELSE 2048)
            /\ c >= 131072 => n = (5 * c) \div 4
            /\ n > c
            /\ c = 0 => n = 2048
            /\ cap = n

\* a capacity just past the cutoff has grown by a quarter, rounded down
C18_Witness ==
    /\ ret.op = "grow"
    /\ ret.len = 131073
    /\ cap = 163841

\* C19: every growth step of Write's loop lengthens the arena, the loop is
\* left only with available(len) true, and a Write that has entered the loop
\* leaves it: it returns (len, nil) with the mutex unlocked.
C19_GrowthLoopTerminates ==
    /\ [][ \A t \in Threads :
              /\ pc[t] = "WriteLoop" /\ pc'[t] = "WriteLoop" =>
                    Len(data') > Len(data)
              /\ WriteReturns(t) => available(buf, Len(arg[t]))
          ]_vars
    /\ \A t \in Threads :
          pc[t] = "WriteLoop" ~>
              ( /\ pc[t] = "idle"
                /\ ret.t = t
                /\ ret.op = "Write"
                /\ ret.err = "nil"
                /\ mutex = 0 )

\* the first Write, of an empty packet, has returned after growing the arena
\* that NewBuffer left without storage
C19_Witness ==
    /\ ret.op = "Write"
    /\ ret.err = "nil"
    /\ nwrites = 1
    /\ count = 1
    /\ Len(data) = minSize
    /\ mutex = 0

\* C20: a Read that returns a packet and leaves no packet queued ends with
\* head = 0 and tail = 0 in the same arena; hence whenever count = 0, both
\* cursors are 0.
C20_CursorReset ==
    /\ [][ \A t \in Threads :
              ( /\ ReadReturns(t)
                /\ ret'.err = "nil"
                /\ count = 1 ) =>
                  /\ count' = 0
                  /\ head' = 0
                  /\ tail' = 0
                  /\ Len(data') = Len(data)
          ]_vars
    /\ [](count = 0 => head = 0 /\ tail = 0)

\* a Read has just returned the last packet, which ended away from offset 0
C20_Witness ==
    /\ ret.op = "Read"
    /\ ret.err = "nil"
    /\ ret.n > 0
    /\ count = 0
    /\ head = 0
    /\ tail = 0
    /\ nwrites > 1
    /\ Len(data) > 0

====
